---- MODULE Spec2Model ----
(***************************************************************************)
(* Model of dbms/include/DB/Common/HashTable/TwoLevelHashTable.h: a hash   *)
(* table made of NUM_BUCKETS small hash tables (first-level buckets); one  *)
(* window of bits of the hash value selects the bucket.                    *)
(*                                                                         *)
(* A hash value (size_t, 64 bits) is kept as four 16-bit limbs             *)
(* <<w0, w1, w2, w3>>, value = w0 + w1*2^16 + w2*2^32 + w3*2^48, because   *)
(* the model checker's integers are 32 bits wide.                          *)
(***************************************************************************)
EXTENDS Integers, Sequences, FiniteSets, TLC

VARIABLES
    hashOf,         \* the Hash functor: key -> hash value
    impls,          \* Impl impls[NUM_BUCKETS]
    res,            \* what the last call returned (and its arguments)
    insertedKeys,   \* keys handed to insert / emplace so far
    src,            \* the flat table given to the converting constructor
    pc,             \* position of the constructor / of the traversal
    cur,            \* a composite iterator
    visited,        \* entries the iterator has been dereferenced at
    wb,             \* the buffer written by write / writeText
    wsnap,          \* impls as it was when wb was written
    dst,            \* the table read / readText fills
    rdres,          \* outcome of the last read / readText
    thr,            \* the two threads: program, position, locals
    acc             \* per thread, the buckets read and written so far

vars == <<hashOf, impls, res, insertedKeys, src, pc, cur, visited,
          wb, wsnap, dst, rdres, thr, acc>>

----------------------------------------------------------------------------
(* Bounds of the model *)

\* keys are 0 .. MaxKey, mapped values 1 .. MaxVal; a thread makes at most
\* MaxOps calls.  BITS_FOR_BUCKET is a template parameter (8 by default,
\* line 35); the model instantiates it with BitsForBucket.
MaxKey == 1
MaxVal == 2
MaxOps == 2
BitsForBucket == 2

Keys == 0 .. MaxKey
ZeroKey == 0
Values == 1 .. MaxVal
Uninit == 0

BITS_FOR_BUCKET == BitsForBucket
HASH_WINDOW == 32
LIMB_BITS == HASH_WINDOW \div 2

Pow2(n) == 2 ^ n

NUM_BUCKETS == Pow2(BITS_FOR_BUCKET)
MAX_BUCKET == NUM_BUCKETS - 1
Buckets == 0 .. MAX_BUCKET

----------------------------------------------------------------------------
(* size_t arithmetic on limbs *)

RECURSIVE BitAnd(_, _)
BitAnd(a, b) ==
    IF a = 0 \/ b = 0 THEN 0
    ELSE (a % 2) * (b % 2) + 2 * BitAnd(a \div 2, b \div 2)

\* h >> n for LIMB_BITS <= n < 2 * LIMB_BITS
ShiftRight(h, n) ==
    (h[2] \div Pow2(n - LIMB_BITS))
        + h[3] * Pow2(2 * LIMB_BITS - n)
        + h[4] * Pow2(3 * LIMB_BITS - n)

\* the hash value whose 32-bit window has top bits b and low limb lo, and
\* whose bits 32.. hold hi
MkHash(b, lo, hi) == <<lo, b * Pow2(LIMB_BITS - BITS_FOR_BUCKET), hi, 0>>

HashList ==
    << MkHash(0, 0, 0), MkHash(1, 7, 0), MkHash(MAX_BUCKET, 0, 0), MkHash(1, 0, 1) >>

HashValues == { HashList[i] : i \in 1 .. Len(HashList) }

\* the hash functions tried: constant ones (every key in one bucket) and
\* ones that spread the keys, with the zero key in any of the buckets used
HashFunctions ==
    { [k \in Keys |-> HashList[((a * k + c) % Len(HashList)) + 1]] :
        a \in 0 .. 1, c \in 0 .. Len(HashList) - 1 }

----------------------------------------------------------------------------
(* TwoLevelHashTable: routing *)

hash(x) == hashOf[x]

getBucketFromHashLowBits(hash_value) == BitAnd(hash_value[1], MAX_BUCKET)

getBucketFromHash(hash_value) ==
    BitAnd(ShiftRight(hash_value, HASH_WINDOW - BITS_FOR_BUCKET), MAX_BUCKET)

----------------------------------------------------------------------------
(* Impl: one first-level bucket, a flat hash table.  A bucket is the       *)
(* sequence of its cells in iteration order; the cell of the zero key is   *)
(* stored separately and iterated first.  An Impl iterator is a position   *)
(* 1 .. Len + 1, the last being end().                                     *)

Cell(k, m, h) == [key |-> k, mapped |-> m, hash |-> h]

EmptyShard == << >>

ShardEmpty(s) == Len(s) = 0
ShardSize(s) == Len(s)
ShardBegin(s) == 1
ShardEnd(s) == Len(s) + 1

ShardHas(s, x) == \E i \in 1 .. Len(s) : s[i].key = x

ShardFind(s, x, hash_value) ==
    IF ShardHas(s, x) THEN CHOOSE i \in 1 .. Len(s) : s[i].key = x
    ELSE ShardEnd(s)

InsertAt(s, p, c) == SubSeq(s, 1, p - 1) \o <<c>> \o SubSeq(s, p, Len(s))

\* where a new cell of key x may land in iteration order
InsertPositions(s, x) ==
    IF x = ZeroKey THEN {1}
    ELSE IF ShardHas(s, ZeroKey) THEN 2 .. Len(s) + 1
    ELSE 1 .. Len(s) + 1

\* emplace(x, it, inserted, hash_value) of a bucket
ShardEmplace(s, x, hash_value, p) ==
    IF ShardHas(s, x)
    THEN [shard |-> s, it |-> ShardFind(s, x, hash_value), inserted |-> FALSE]
    ELSE [shard |-> InsertAt(s, p, Cell(x, Uninit, hash_value)),
          it |-> p, inserted |-> TRUE]

\* insertUniqueNonZero(cell, hash_value) of a bucket: no look-up
ShardInsertUniqueNonZero(s, c, hash_value, p) ==
    InsertAt(s, p, Cell(c.key, c.mapped, hash_value))

ShardSetMapped(s, i, m) == [s EXCEPT ![i].mapped = m]

----------------------------------------------------------------------------
(* TwoLevelHashTable *)

EmptyTable == [b \in Buckets |-> EmptyShard]

Iter(b, p) == [bucket |-> b, pos |-> p]

end(t) == Iter(MAX_BUCKET, ShardEnd(t[MAX_BUCKET]))

emplace(t, x, hash_value, p) ==
    LET buck == getBucketFromHash(hash_value)
        r == ShardEmplace(t[buck], x, hash_value, p)
    IN  [impls |-> [t EXCEPT ![buck] = r.shard],
         it |-> Iter(buck, r.it),
         inserted |-> r.inserted]

\* variants of the calls, each with one slip
insertAlwaysSetMapped(t, k, m, p) ==
    LET r == emplace(t, k, hash(k), p)
    IN  [r EXCEPT !.impls[r.it.bucket] =
                    ShardSetMapped(r.impls[r.it.bucket], r.it.pos, m)]

insertHashOfMapped(t, k, m, p) ==
    LET r == emplace(t, k, hash(m % (MaxKey + 1)), p)
    IN  IF r.inserted
        THEN [r EXCEPT !.impls[r.it.bucket] =
                        ShardSetMapped(r.impls[r.it.bucket], r.it.pos, m)]
        ELSE r

insert(t, k, m, p) ==
    LET r == emplace(t, k, hash(k), p)
    IN  IF r.inserted
        THEN [r EXCEPT !.impls[r.it.bucket] =
                        ShardSetMapped(r.impls[r.it.bucket], r.it.pos, m)]
        ELSE r

findCompareLastEnd(t, x) ==
    LET hash_value == hash(x)
        buck == getBucketFromHash(hash_value)
        found == ShardFind(t[buck], x, hash_value)
    IN  IF found # ShardEnd(t[MAX_BUCKET]) THEN Iter(buck, found) ELSE end(t)

find(t, x) ==
    LET hash_value == hash(x)
        buck == getBucketFromHash(hash_value)
        found == ShardFind(t[buck], x, hash_value)
    IN  IF found # ShardEnd(t[buck]) THEN Iter(buck, found) ELSE end(t)

RECURSIVE SumSizes(_, _)
SumSizes(t, i) == IF i = NUM_BUCKETS THEN 0 ELSE ShardSize(t[i]) + SumSizes(t, i + 1)

size(t) == SumSizes(t, 0)

empty(t) == \A i \in Buckets : ShardEmpty(t[i])

\* where a new cell of key x, hashed to hash_value, may land in its bucket
Places(t, x, hash_value) == InsertPositions(t[getBucketFromHash(hash_value)], x)

----------------------------------------------------------------------------
(* Calls on one table *)

NoRes == [op |-> "none"]
Threads == {1, 2}
NoThr == [t \in Threads |-> [keys |-> {}, step |-> "idle", op |-> NoRes, hist |-> << >>]]
NoAcc == [t \in Threads |-> [reads |-> {}, writes |-> {}]]

Idle ==
    /\ src = << >> /\ pc = "idle" /\ cur = Iter(0, 1) /\ visited = << >>
    /\ wb = << >> /\ wsnap = EmptyTable /\ dst = EmptyTable /\ rdres = NoRes
    /\ thr = NoThr /\ acc = NoAcc

Init ==
    /\ hashOf \in HashFunctions
    /\ impls = EmptyTable
    /\ res = NoRes
    /\ insertedKeys = {}
    /\ Idle

Others == <<src, pc, cur, visited, wb, wsnap, dst, rdres, thr, acc>>

Insert(k, m) ==
    /\ \E p \in Places(impls, k, hash(k)) :
        LET r == insert(impls, k, m, p)
        IN  /\ impls' = r.impls
            /\ res' = [op |-> "insert", key |-> k, value |-> m,
                       hash |-> hash(k), it |-> r.it, inserted |-> r.inserted]
    /\ insertedKeys' = insertedKeys \cup {k}
    /\ UNCHANGED <<hashOf, Others>>

Emplace(k) ==
    /\ \E p \in Places(impls, k, hash(k)) :
        LET r == emplace(impls, k, hash(k), p)
        IN  /\ impls' = r.impls
            /\ res' = [op |-> "emplace", key |-> k, value |-> Uninit,
                       hash |-> hash(k), it |-> r.it, inserted |-> r.inserted]
    /\ insertedKeys' = insertedKeys \cup {k}
    /\ UNCHANGED <<hashOf, Others>>

\* the caller passes the value of the hash function computed beforehand
EmplaceHash(k, h) ==
    /\ h = hash(k)
    /\ \E p \in Places(impls, k, h) :
        LET r == emplace(impls, k, h, p)
        IN  /\ impls' = r.impls
            /\ res' = [op |-> "emplaceHash", key |-> k, value |-> Uninit,
                       hash |-> h, it |-> r.it, inserted |-> r.inserted]
    /\ insertedKeys' = insertedKeys \cup {k}
    /\ UNCHANGED <<hashOf, Others>>

Find(k) ==
    /\ res' = [op |-> "find", key |-> k, value |-> Uninit, hash |-> hash(k),
               it |-> find(impls, k), inserted |-> FALSE]
    /\ UNCHANGED <<hashOf, impls, insertedKeys, Others>>

Next ==
    \/ \E k \in Keys, m \in Values : Insert(k, m)
    \/ \E k \in Keys : Emplace(k)
    \/ \E k \in Keys, h \in HashValues : EmplaceHash(k, h)
    \/ \E k \in Keys : Find(k)

Spec == Init /\ [][Next]_vars

----------------------------------------------------------------------------
(* Properties of the calls on one table *)

\* (hash >> (32 - B)) & (2^B - 1), read off the limbs: the top B bits of
\* the low 32-bit word
RoutedShard(h) == (h[2] \div Pow2(LIMB_BITS - BITS_FOR_BUCKET)) % Pow2(BITS_FOR_BUCKET)

Places_of(t, k) == { <<b, i>> \in Buckets \X (1 .. MaxKey + 2) :
                        i <= Len(t[b]) /\ t[b][i].key = k }

Holds(t, k) == Places_of(t, k) # {}

MappedOf(t, k) ==
    LET bi == CHOOSE bi \in Places_of(t, k) : TRUE IN t[bi[1]][bi[2]].mapped

\* C1: every key handed to insert or emplace is found by find, at a
\* cursor other than end() that points at a cell of that key in the bucket
\* (hash(k) >> (32 - B)) & (2^B - 1).
C1_FindInserted ==
    /\ \A k \in insertedKeys :
          LET f == find(impls, k)
          IN  /\ f # end(impls)
              /\ f.bucket \in Buckets
              /\ f.pos \in 1 .. Len(impls[f.bucket])
              /\ impls[f.bucket][f.pos].key = k
              /\ f.bucket = RoutedShard(hash(k))
    /\ (res.op = "find" /\ res.key \in insertedKeys) =>
          /\ res.it # end(impls)
          /\ res.it.bucket = RoutedShard(hash(res.key))
          /\ impls[res.it.bucket][res.it.pos].key = res.key

C1_Witness ==
    /\ res.op = "find"
    /\ res.key \in insertedKeys
    /\ res.it.bucket # 0
    /\ size(impls) >= 2

\* C2: insert of a key that is already in the table reports inserted =
\* false and changes neither size() nor the mapped value stored for the
\* key; insert of a new key reports inserted = true, adds one to size()
\* and stores the value given.
C2_InsertTwice ==
    [][ res'.op = "insert" =>
          LET k == res'.key
          IN  IF Holds(impls, k)
              THEN /\ ~res'.inserted
                   /\ size(impls') = size(impls)
                   /\ MappedOf(impls', k) = MappedOf(impls, k)
              ELSE /\ res'.inserted
                   /\ size(impls') = size(impls) + 1
                   /\ MappedOf(impls', k) = res'.value ]_vars

C2_Witness ==
    /\ res.op = "insert"
    /\ ~res.inserted
    /\ MappedOf(impls, res.key) \in Values
    /\ MappedOf(impls, res.key) # res.value

\* C3: after any calls of insert, emplace(key) and emplace(key, hash of
\* the key), no key has more than one cell over all buckets.
C3_Uniqueness ==
    \A k \in Keys : Cardinality(Places_of(impls, k)) <= 1

C3_Witness ==
    /\ res.op = "emplaceHash"
    /\ ~res.inserted
    /\ size(impls) >= 2

\* C8: a call of insert or emplace leaves every bucket other than
\* (hash_value >> (32 - B)) & (2^B - 1) as it was, and the array of buckets
\* keeps its index set.
C8_Frame ==
    [][ res'.op \in {"insert", "emplace", "emplaceHash"} =>
          /\ DOMAIN impls' = DOMAIN impls
          /\ \A b \in DOMAIN impls :
                b # RoutedShard(res'.hash) => impls'[b] = impls[b] ]_vars

C8_Witness ==
    /\ res.op = "emplace"
    /\ res.inserted
    /\ \E b \in Buckets : b # res.it.bucket /\ ~ShardEmpty(impls[b])

----------------------------------------------------------------------------
(* The converting constructor and the composite iterator *)

\* The flat tables a TwoLevelHashTable is built from: cells of pairwise
\* distinct keys in iteration order, the zero key (when there) first.
FlatTables ==
    { s \in UNION { [1 .. n -> [key : Keys, mapped : Values]] : n \in 0 .. MaxKey + 1 } :
        /\ \A i, j \in 1 .. Len(s) : i # j => s[i].key # s[j].key
        /\ \A i \in 2 .. Len(s) : s[i].key # ZeroKey }

\* cell->getHash(src): the source has the same hash function
getHash(c) == hash(c.key)

\* lines 96-103, without the ++it
constructZeroNoAdvance(t, source) ==
    IF 1 <= Len(source) /\ source[1].key = ZeroKey
    THEN [impls |-> insert(t, source[1].key, source[1].mapped, 1).impls, it |-> 1]
    ELSE [impls |-> t, it |-> 1]

\* lines 96-103: it = src.begin(); the zero key, when first, goes through insert
constructZero(t, source) ==
    IF 1 <= Len(source) /\ source[1].key = ZeroKey
    THEN [impls |-> insert(t, source[1].key, source[1].mapped, 1).impls, it |-> 2]
    ELSE [impls |-> t, it |-> 1]

\* lines 105-111: one turn of the loop
constructStep(t, source, i, p) ==
    LET cell == source[i]
        hash_value == getHash(cell)
        buck == getBucketFromHash(hash_value)
    IN  [impls |-> [t EXCEPT ![buck] =
                        ShardInsertUniqueNonZero(t[buck], cell, hash_value, p)],
         it |-> i + 1]

RECURSIVE beginOfNextNonEmptyBucket(_, _)
beginOfNextNonEmptyBucket(t, bucket) ==
    IF bucket # NUM_BUCKETS /\ ShardEmpty(t[bucket])
    THEN beginOfNextNonEmptyBucket(t, bucket + 1)
    ELSE IF bucket # NUM_BUCKETS
         THEN Iter(bucket, ShardBegin(t[bucket]))
         ELSE Iter(bucket - 1, ShardEnd(t[MAX_BUCKET]))

beginFromOne(t) == beginOfNextNonEmptyBucket(t, 1)

begin(t) == beginOfNextNonEmptyBucket(t, 0)

incrementNextBucket(t, i) == beginOfNextNonEmptyBucket(t, i.bucket + 1)

\* operator++
increment(t, i) ==
    LET current_it == i.pos + 1
    IN  IF current_it = ShardEnd(t[i.bucket])
        THEN beginOfNextNonEmptyBucket(t, i.bucket + 1)
        ELSE Iter(i.bucket, current_it)

\* operator*
deref(t, i) == t[i.bucket][i.pos]

InitConv ==
    /\ hashOf \in HashFunctions
    /\ impls = EmptyTable
    /\ src \in FlatTables
    /\ pc = "ctor"
    /\ res = [op |-> "ctor", it |-> 0]
    /\ insertedKeys = {}
    /\ cur = Iter(0, 1) /\ visited = << >>
    /\ wb = << >> /\ wsnap = EmptyTable /\ dst = EmptyTable /\ rdres = NoRes
    /\ thr = NoThr /\ acc = NoAcc

ConvRest == <<hashOf, src, insertedKeys, wb, wsnap, dst, rdres, thr, acc>>

CtorZero ==
    /\ pc = "ctor"
    /\ LET r == constructZero(impls, src)
       IN  impls' = r.impls /\ res' = [op |-> "ctor", it |-> r.it]
    /\ pc' = "loop"
    /\ UNCHANGED <<cur, visited, ConvRest>>

CtorLoop ==
    /\ pc = "loop"
    /\ res.it # Len(src) + 1
    /\ \E p \in Places(impls, src[res.it].key, getHash(src[res.it])) :
        LET r == constructStep(impls, src, res.it, p)
        IN  impls' = r.impls /\ res' = [op |-> "ctor", it |-> r.it]
    /\ UNCHANGED <<pc, cur, visited, ConvRest>>

CtorDone ==
    /\ pc = "loop"
    /\ res.it = Len(src) + 1
    /\ pc' = "built"
    /\ UNCHANGED <<impls, res, cur, visited, ConvRest>>

IterBegin ==
    /\ pc = "built"
    /\ cur' = begin(impls)
    /\ visited' = << >>
    /\ pc' = "iter"
    /\ UNCHANGED <<impls, res, ConvRest>>

\* the loop body of for (it = begin(); it != end(); ++it)
IterNext ==
    /\ pc = "iter"
    /\ cur # end(impls)
    /\ Len(visited) <= size(impls)
    /\ visited' = Append(visited, [key |-> deref(impls, cur).key,
                                   mapped |-> deref(impls, cur).mapped,
                                   bucket |-> cur.bucket])
    /\ cur' = increment(impls, cur)
    /\ UNCHANGED <<impls, res, pc, ConvRest>>

IterEnd ==
    /\ pc = "iter"
    /\ cur = end(impls)
    /\ pc' = "finished"
    /\ UNCHANGED <<impls, res, cur, visited, ConvRest>>

NextConv ==
    \/ CtorZero
    \/ CtorLoop
    \/ CtorDone
    \/ IterBegin
    \/ IterNext
    \/ IterEnd

SpecConv == InitConv /\ [][NextConv]_vars

Constructed == pc \in {"built", "iter", "finished"}

\* C4: a table built from a flat table of N cells of distinct keys has
\* size() = N, and find reaches every source cell, with its mapped value,
\* in the bucket (hash >> (32 - B)) & (2^B - 1) of its key's hash.
C4_Converted ==
    Constructed =>
        /\ size(impls) = Len(src)
        /\ \A i \in 1 .. Len(src) :
              LET f == find(impls, src[i].key)
              IN  /\ f # end(impls)
                  /\ deref(impls, f).key = src[i].key
                  /\ deref(impls, f).mapped = src[i].mapped
                  /\ f.bucket = RoutedShard(hash(src[i].key))

C4_Witness ==
    /\ pc = "built"
    /\ Len(src) >= 2
    /\ src[1].key = ZeroKey
    /\ find(impls, ZeroKey).bucket # find(impls, src[2].key).bucket

ZeroFirst == Len(src) >= 1 /\ src[1].key = ZeroKey

C6_Traversal ==
    /\ pc \in {"iter", "finished"} =>
          /\ Len(visited) <= size(impls)
          /\ \A i, j \in 1 .. Len(visited) :
                i < j => /\ visited[i].bucket <= visited[j].bucket
                         /\ visited[i].key # visited[j].key
          /\ \A i \in 1 .. Len(visited) :
                \E p \in 1 .. Len(impls[visited[i].bucket]) :
                    /\ impls[visited[i].bucket][p].key = visited[i].key
                    /\ impls[visited[i].bucket][p].mapped = visited[i].mapped
    /\ pc = "finished" =>
          /\ Len(visited) = size(impls)
          /\ cur = Iter(MAX_BUCKET, Len(impls[MAX_BUCKET]) + 1)
    /\ (Constructed /\ empty(impls)) => begin(impls) = end(impls)

C6_Witness ==
    /\ pc = "finished"
    /\ Len(visited) >= 2
    /\ visited[1].bucket = visited[2].bucket
    /\ visited[1].bucket # MAX_BUCKET

----------------------------------------------------------------------------
(* write / read, writeText / readText *)

\* A buffer is a sequence of tokens: the size and the cells of each bucket,
\* in the binary or the text form, and the ',' that writeText puts between
\* buckets.
SizeTok(f, n) == [t |-> "size", fmt |-> f, n |-> n]
CellTok(f, c) == [t |-> "cell", fmt |-> f, key |-> c.key, mapped |-> c.mapped]
Comma == [t |-> "comma"]

\* write / writeText of a bucket: its size, then its cells in iteration order
ShardWriteAs(f, s) == <<SizeTok(f, Len(s))>> \o [i \in 1 .. Len(s) |-> CellTok(f, s[i])]

ShardWrite(s) == ShardWriteAs("bin", s)
ShardWriteText(s) == ShardWriteAs("text", s)

\* reading n cells into a bucket, each inserted under the hash of its key
RECURSIVE ShardReadCells(_, _, _, _)
ShardReadCells(f, s, n, rb) ==
    IF n = 0 THEN [ok |-> TRUE, shard |-> s, rest |-> rb]
    ELSE IF Len(rb) = 0 \/ Head(rb).t # "cell" \/ Head(rb).fmt # f
         THEN [ok |-> FALSE, shard |-> s, rest |-> rb]
         ELSE LET x == Head(rb)
                  p == IF x.key = ZeroKey THEN 1 ELSE Len(s) + 1
                  r == ShardEmplace(s, x.key, hash(x.key), p)
                  s2 == IF r.inserted THEN ShardSetMapped(r.shard, r.it, x.mapped)
                        ELSE r.shard
              IN  ShardReadCells(f, s2, n - 1, Tail(rb))

\* read / readText of a bucket: drops what the bucket held, reads the size,
\* then that many cells
ShardReadAs(f, s, rb) ==
    IF Len(rb) = 0 \/ Head(rb).t # "size" \/ Head(rb).fmt # f
    THEN [ok |-> FALSE, shard |-> s, rest |-> rb]
    ELSE ShardReadCells(f, EmptyShard, Head(rb).n, Tail(rb))

ShardRead(s, rb) == ShardReadAs("bin", s, rb)
ShardReadText(s, rb) == ShardReadAs("text", s, rb)

RECURSIVE writeFrom(_, _)
writeFrom(t, i) ==
    IF i = NUM_BUCKETS THEN << >> ELSE ShardWrite(t[i]) \o writeFrom(t, i + 1)

writeSkipFirst(t) == writeFrom(t, 1)

write(t) == writeFrom(t, 0)

RECURSIVE writeTextFrom(_, _)
writeTextFrom(t, i) ==
    IF i = NUM_BUCKETS THEN << >>
    ELSE (IF i # 0 THEN <<Comma>> ELSE << >>)
            \o ShardWriteText(t[i]) \o writeTextFrom(t, i + 1)

writeText(t) == writeTextFrom(t, 0)

\* the outcome of a read: the table, whether an exception left the loop,
\* the bucket it was at, and the buffer from the read position on
Outcome(t, ok, i, why, rb) ==
    [impls |-> t, ok |-> ok, failedAt |-> i, why |-> why, rest |-> rb]

RECURSIVE readFrom(_, _, _)
readFrom(t, i, rb) ==
    IF i = NUM_BUCKETS THEN Outcome(t, TRUE, NUM_BUCKETS, "none", rb)
    ELSE LET r == ShardRead(t[i], rb)
             t2 == [t EXCEPT ![i] = r.shard]
         IN  IF r.ok THEN readFrom(t2, i + 1, r.rest)
             ELSE Outcome(t2, FALSE, i, "bucket", r.rest)

read(t, rb) == readFrom(t, 0, rb)

\* readText with the ',' skipped unchecked
RECURSIVE readTextFromSkipChar(_, _, _)
readTextFromSkipChar(t, i, rb) ==
    IF i = NUM_BUCKETS THEN Outcome(t, TRUE, NUM_BUCKETS, "none", rb)
    ELSE LET rb2 == IF i # 0 /\ Len(rb) > 0 THEN Tail(rb) ELSE rb
             r == ShardReadText(t[i], rb2)
             t2 == [t EXCEPT ![i] = r.shard]
         IN  IF r.ok THEN readTextFromSkipChar(t2, i + 1, r.rest)
             ELSE Outcome(t2, FALSE, i, "bucket", r.rest)

readTextSkipChar(t, rb) == readTextFromSkipChar(t, 0, rb)

RECURSIVE readTextFrom(_, _, _)
readTextFrom(t, i, rb) ==
    IF i = NUM_BUCKETS THEN Outcome(t, TRUE, NUM_BUCKETS, "none", rb)
    ELSE IF i # 0 /\ (Len(rb) = 0 \/ Head(rb) # Comma)
         THEN Outcome(t, FALSE, i, "comma", rb)
         ELSE LET rb2 == IF i # 0 THEN Tail(rb) ELSE rb
                  r == ShardReadText(t[i], rb2)
                  t2 == [t EXCEPT ![i] = r.shard]
              IN  IF r.ok THEN readTextFrom(t2, i + 1, r.rest)
                  ELSE Outcome(t2, FALSE, i, "bucket", r.rest)

readText(t, rb) == readTextFrom(t, 0, rb)

NoBuf == [fmt |-> "none", data |-> << >>, cut |-> 0]

InitSer ==
    /\ hashOf \in HashFunctions
    /\ impls = EmptyTable
    /\ res = NoRes
    /\ insertedKeys = {}
    /\ src = << >> /\ cur = Iter(0, 1) /\ visited = << >>
    /\ pc = "fill"
    /\ wb = NoBuf
    /\ wsnap = EmptyTable
    /\ dst = EmptyTable
    /\ rdres = NoRes
    /\ thr = NoThr /\ acc = NoAcc

SerRest == <<hashOf, res, src, cur, visited, thr, acc>>

\* the table is filled by insert, before and after it is written
Fill(k, m) ==
    /\ pc \in {"fill", "written"}
    /\ \E p \in Places(impls, k, hash(k)) : impls' = insert(impls, k, m, p).impls
    /\ insertedKeys' = insertedKeys \cup {k}
    /\ UNCHANGED <<pc, wb, wsnap, dst, rdres, SerRest>>

Write ==
    /\ pc = "fill"
    /\ wb' = [fmt |-> "bin", data |-> write(impls), cut |-> 0]
    /\ wsnap' = impls
    /\ pc' = "written"
    /\ UNCHANGED <<impls, insertedKeys, dst, rdres, SerRest>>

WriteText ==
    /\ pc = "fill"
    /\ wb' = [fmt |-> "text", data |-> writeText(impls), cut |-> 0]
    /\ wsnap' = impls
    /\ pc' = "written"
    /\ UNCHANGED <<impls, insertedKeys, dst, rdres, SerRest>>

\* malformed text input: the text that was written, one token lost
Damage(c) ==
    /\ pc = "written"
    /\ wb.fmt = "text"
    /\ wb.cut = 0
    /\ c \in 1 .. Len(wb.data)
    /\ wb' = [wb EXCEPT !.cut = c]
    /\ UNCHANGED <<impls, insertedKeys, pc, wsnap, dst, rdres, SerRest>>

Damaged(b) ==
    IF b.cut = 0 THEN b.data
    ELSE SubSeq(b.data, 1, b.cut - 1) \o SubSeq(b.data, b.cut + 1, Len(b.data))

\* read into a table just constructed
Read ==
    /\ pc = "written"
    /\ wb.fmt = "bin"
    /\ LET r == read(EmptyTable, Damaged(wb))
       IN  /\ dst' = r.impls
           /\ rdres' = [op |-> "read", prev |-> EmptyTable, ok |-> r.ok,
                         failedAt |-> r.failedAt, why |-> r.why, rest |-> r.rest]
    /\ pc' = "read"
    /\ UNCHANGED <<impls, insertedKeys, wb, wsnap, SerRest>>

\* readText into a table just constructed, or into the table as it is now
ReadText(target) ==
    /\ pc = "written"
    /\ wb.fmt = "text"
    /\ LET r == readText(target, Damaged(wb))
       IN  /\ dst' = r.impls
           /\ rdres' = [op |-> "readText", prev |-> target, ok |-> r.ok,
                         failedAt |-> r.failedAt, why |-> r.why, rest |-> r.rest]
    /\ pc' = "read"
    /\ UNCHANGED <<impls, insertedKeys, wb, wsnap, SerRest>>

NextSer ==
    \/ \E k \in Keys, m \in Values : Fill(k, m)
    \/ Write
    \/ WriteText
    \/ \E c \in 1 .. (2 * NUM_BUCKETS + MaxKey) : Damage(c)
    \/ Read
    \/ \E target \in {EmptyTable, impls} : ReadText(target)

SpecSer == InitSer /\ [][NextSer]_vars

CellSet(s) == { [key |-> s[i].key, mapped |-> s[i].mapped] : i \in 1 .. Len(s) }

\* C7: a buffer written by write (writeText) and read by read (readText)
\* into a table just constructed gives a table with the same key/value
\* pairs in every bucket and the same size(), and the whole buffer is read.
C7_RoundTrip ==
    (pc = "read" /\ wb.cut = 0 /\ rdres.prev = EmptyTable) =>
        /\ rdres.ok
        /\ rdres.rest = << >>
        /\ size(dst) = size(wsnap)
        /\ \A b \in Buckets :
              /\ CellSet(dst[b]) = CellSet(wsnap[b])
              /\ Len(dst[b]) = Len(wsnap[b])

C7_Witness ==
    /\ pc = "read"
    /\ rdres.op = "read"
    /\ size(dst) >= 2
    /\ \E b \in Buckets : b # 0 /\ Len(dst[b]) = 1

\* the bucket a lost token belongs to: the number of ',' up to and
\* including it
CutShard(b) == Cardinality({ j \in 1 .. b.cut : b.data[j] = Comma })

SizeToks(rb) == Cardinality({ j \in 1 .. Len(rb) : rb[j].t = "size" })

\* C9: readText of a text that lost a token of bucket i, or the ',' before
\* bucket i, fails at bucket i: the buckets before i hold what was written
\* for them, the buckets after i are as they were, nothing of the buckets
\* after i has been read, and when it is the ',' that is lost bucket i is
\* as it was too and the read position is where the ',' should have been.
C9_ReadTextAbort ==
    (pc = "read" /\ rdres.op = "readText" /\ wb.cut # 0) =>
        LET i == CutShard(wb)
            n == Len(wb.data)
        IN  /\ ~rdres.ok
            /\ rdres.failedAt = i
            /\ \A j \in Buckets : j < i => CellSet(dst[j]) = CellSet(wsnap[j])
            /\ \A j \in Buckets : j > i => dst[j] = rdres.prev[j]
            /\ Len(rdres.rest) <= n
            /\ rdres.rest = SubSeq(wb.data, n - Len(rdres.rest) + 1, n)
            /\ SizeToks(rdres.rest) >= NUM_BUCKETS - 1 - i
            /\ wb.data[wb.cut] = Comma =>
                  /\ dst[i] = rdres.prev[i]
                  /\ rdres.rest = SubSeq(wb.data, wb.cut + 1, n)

C9_Witness ==
    /\ pc = "read"
    /\ rdres.op = "readText"
    /\ wb.cut # 0
    /\ wb.data[wb.cut] = Comma
    /\ \E j \in Buckets : j < rdres.failedAt /\ ~ShardEmpty(dst[j])
    /\ \E j \in Buckets : /\ j > rdres.failedAt
                           /\ ~ShardEmpty(dst[j])
                           /\ CellSet(dst[j]) # CellSet(wsnap[j])

----------------------------------------------------------------------------
(* Two threads calling insert / emplace / find on one table, without     *)
(* locks, each on keys of its own buckets.  A step is one access to one  *)
(* bucket.                                                               *)

BucketsOf(ks) == { getBucketFromHash(hash(k)) : k \in ks }

InitConc ==
    /\ hashOf \in HashFunctions
    /\ impls = EmptyTable
    /\ res = NoRes
    /\ insertedKeys = {}
    /\ src = << >> /\ pc = "idle" /\ cur = Iter(0, 1) /\ visited = << >>
    /\ wb = << >> /\ wsnap = EmptyTable /\ dst = EmptyTable /\ rdres = NoRes
    /\ \E ks \in SUBSET Keys :
          /\ BucketsOf(ks) \cap BucketsOf(Keys \ ks) = {}
          /\ thr = [t \in Threads |->
                      [keys |-> IF t = 1 THEN ks ELSE Keys \ ks,
                       step |-> "idle", op |-> NoRes, hist |-> << >>]]
    /\ acc = NoAcc

ConcRest == <<hashOf, res, insertedKeys, src, pc, cur, visited, wb, wsnap, dst, rdres>>

Touch(t, rd, wr) ==
    acc' = [acc EXCEPT ![t].reads = @ \cup rd, ![t].writes = @ \cup wr]

\* what a finished call returned: inserted, the bucket of the iterator, and
\* the key it points at (or "end")
Returned(o, k, m, inserted, it, at) ==
    [op |-> o, key |-> k, value |-> m, inserted |-> inserted,
     bucket |-> it.bucket, at |-> at]

Finish(t, r) ==
    thr' = [thr EXCEPT ![t].step = "idle", ![t].op = NoRes,
                       ![t].hist = Append(@, r)]

MayCall(t, k) ==
    /\ thr[t].step = "idle"
    /\ Len(thr[t].hist) < MaxOps
    /\ k \in thr[t].keys

\* emplace: lines 248-251, one access to impls[buck]
CallEmplace(t, k) ==
    /\ MayCall(t, k)
    /\ \E p \in Places(impls, k, hash(k)) :
        LET r == emplace(impls, k, hash(k), p)
        IN  /\ impls' = r.impls
            /\ Finish(t, Returned("emplace", k, Uninit, r.inserted, r.it, k))
            /\ Touch(t, {r.it.bucket}, {r.it.bucket})
    /\ UNCHANGED ConcRest

\* insert: lines 211-214, the emplace
CallInsert(t, k, m) ==
    /\ MayCall(t, k)
    /\ \E p \in Places(impls, k, hash(k)) :
        LET r == emplace(impls, k, hash(k), p)
        IN  /\ impls' = r.impls
            /\ Touch(t, {r.it.bucket}, {r.it.bucket})
            /\ IF r.inserted
               THEN thr' = [thr EXCEPT ![t].step = "setMapped",
                               ![t].op = [op |-> "insert", key |-> k,
                                          value |-> m, it |-> r.it]]
               ELSE Finish(t, Returned("insert", k, m, FALSE, r.it, k))
    /\ UNCHANGED ConcRest

\* insert: lines 216-217, setMapped through the iterator
SetMapped(t) ==
    /\ thr[t].step = "setMapped"
    /\ LET o == thr[t].op
       IN  /\ impls' = [impls EXCEPT ![o.it.bucket] =
                            ShardSetMapped(impls[o.it.bucket], o.it.pos, o.value)]
           /\ Touch(t, {}, {o.it.bucket})
           /\ Finish(t, Returned("insert", o.key, o.value, TRUE, o.it, o.key))
    /\ UNCHANGED ConcRest

\* find: lines 257-261, the look-up in impls[buck]
CallFind(t, k) ==
    /\ MayCall(t, k)
    /\ LET hash_value == hash(k)
           buck == getBucketFromHash(hash_value)
           found == ShardFind(impls[buck], k, hash_value)
       IN  /\ Touch(t, {buck}, {})
           /\ IF found # ShardEnd(impls[buck])
              THEN Finish(t, Returned("find", k, Uninit, FALSE, Iter(buck, found), k))
              ELSE thr' = [thr EXCEPT ![t].step = "end",
                              ![t].op = [op |-> "find", key |-> k]]
    /\ UNCHANGED <<impls, ConcRest>>

\* find: line 263, end() = { this, MAX_BUCKET, impls[MAX_BUCKET].end() }
FindEnd(t) ==
    /\ thr[t].step = "end"
    /\ Finish(t, Returned("find", thr[t].op.key, Uninit, FALSE, end(impls), "end"))
    /\ Touch(t, {MAX_BUCKET}, {})
    /\ UNCHANGED <<impls, ConcRest>>

NextConc ==
    \E t \in Threads :
        \/ \E k \in Keys : CallEmplace(t, k)
        \/ \E k \in Keys, m \in Values : CallInsert(t, k, m)
        \/ SetMapped(t)
        \/ \E k \in Keys : CallFind(t, k)
        \/ FindEnd(t)

SpecConc == InitConc /\ [][NextConc]_vars

\* the calls of h, one after another, on table t: the table and what the
\* calls return
RECURSIVE RunSeq(_, _)
RunSeq(t, h) ==
    IF h = << >> THEN [impls |-> t, out |-> << >>]
    ELSE LET o == Head(h)
             p == IF o.key = ZeroKey THEN 1
                  ELSE Len(t[getBucketFromHash(hash(o.key))]) + 1
             r == IF o.op = "insert" THEN insert(t, o.key, o.value, p)
                  ELSE IF o.op = "emplace" THEN emplace(t, o.key, hash(o.key), p)
                  ELSE [impls |-> t, it |-> find(t, o.key), inserted |-> FALSE]
             at == IF o.op = "find" /\ r.it = end(t) THEN "end" ELSE o.key
             rest == RunSeq(r.impls, Tail(h))
         IN  [impls |-> rest.impls,
              out |-> <<Returned(o.op, o.key, o.value, r.inserted, r.it, at)>> \o rest.out]

\* the interleavings of two sequences of calls, each tagged with its thread
RECURSIVE Merges(_, _)
Merges(a, b) ==
    IF a = << >> THEN { [i \in 1 .. Len(b) |-> <<2, b[i]>>] }
    ELSE IF b = << >> THEN { [i \in 1 .. Len(a) |-> <<1, a[i]>>] }
    ELSE { <<<<1, Head(a)>>>> \o m : m \in Merges(Tail(a), b) }
            \cup { <<<<2, Head(b)>>>> \o m : m \in Merges(a, Tail(b)) }

Untag(m) == [i \in 1 .. Len(m) |-> m[i][2]]

Quiet == \A t \in Threads : thr[t].step = "idle"

Sequential ==
    \E m \in Merges(thr[1].hist, thr[2].hist) :
        LET r == RunSeq(EmptyTable, Untag(m))
        IN  /\ \A b \in Buckets : CellSet(r.impls[b]) = CellSet(impls[b])
            /\ r.out = Untag(m)

NoSharedBucket ==
    \A t, u \in Threads :
        t # u => (acc[t].reads \cup acc[t].writes) \cap acc[u].writes = {}

\* C10: two threads calling insert / emplace / find with no locks, on keys
\* of disjoint buckets, leave the table and return what some sequential
\* order of their calls does, and neither reads or writes a bucket the
\* other writes.
C10_DisjointBuckets ==
    /\ NoSharedBucket
    /\ Quiet => Sequential

====
